---- MODULE Spec2Model ----
(***************************************************************************)
(* Model of the awoo crate: Cut construction (src/lib.rs) and the simple   *)
(* f32 time generator (src/time/simple.rs, also declared in src/lib.rs).   *)
(*                                                                         *)
(* Time is modelled by integers.  Every time value of the model has a      *)
(* magnitude far below 2^24, the range in which f32 addition and           *)
(* subtraction of integer values are exact, so `+` and `-` below are what  *)
(* the f32 `+=` and `-=` of the code compute on these values.              *)
(***************************************************************************)
EXTENDS Integers, Sequences, FiniteSets, TLC

VARIABLES
  gen,        \* the SimpleF32TimeGenerator: [current, reset_value, delta]
  newArgs,    \* the arguments new() was called with
  op,         \* name of the last generator method called ("new" at first)
  prevOp,     \* name of the method called before that
  prevOp2,    \* name of the method called before prevOp
  arg,        \* argument of the last call (set, change_delta), else Unit
  ret,        \* value returned by the last call, Unit for ()
  pre,        \* the generator as it was before the last call
  lastDelta,  \* Some(d) for the latest change_delta(d), None if never called
  lastT,      \* Some(t) for the time the latest tick/untick returned
  ticks,      \* tick() calls since new, while only tick/untick were called
  unticks,    \* untick() calls since new, while only tick/untick were called
  plain,      \* TRUE while only tick/untick were called since new
  libgen,     \* the SimpleF32TimeGenerator of lib.rs, built with the same arguments
  libret,     \* value returned by the last call on libgen, Unit for ()
  cutArgs,    \* arguments of the last Cut::new call, None before any
  cutRes,     \* the Option<Cut> the last Cut::new call returned
  durRes      \* Some(d) for the value the last dur() call returned

genVars == <<gen, newArgs, op, prevOp, prevOp2, arg, ret, pre, lastDelta, lastT,
             ticks, unticks, plain, libgen, libret>>
cutVars == <<cutArgs, cutRes, durRes>>
vars == <<gen, newArgs, op, prevOp, prevOp2, arg, ret, pre, lastDelta, lastT,
          ticks, unticks, plain, libgen, libret, cutArgs, cutRes, durRes>>

----------------------------------------------------------------------------
\* Bounds of the model.

MaxTime == 4
\* |current| stays within MaxTime

MaxReset == 1
\* reset_value passed to new ranges over -MaxReset..MaxReset

MaxDelta == 2
\* delta (new, change_delta) ranges over -1..MaxDelta

MaxSet == 2
\* value passed to set ranges over -MaxSet..MaxSet

MaxOps == 5
\* longest tick/untick history that is counted

MaxCutTime == 2
\* start_t, stop_t range over -MaxCutTime..MaxCutTime

TimeRange == (0 - MaxTime)..MaxTime
ResetValues == (0 - MaxReset)..MaxReset
DeltaValues == (0 - 1)..MaxDelta
SetValues == (0 - MaxSet)..MaxSet
CutTimes == (0 - MaxCutTime)..MaxCutTime

\* Behaviors a cut may refer to; a cut only holds the reference.
Behaviors == {"behaviorA", "behaviorB"}

----------------------------------------------------------------------------
\* Option<T> and ().

None == [tag |-> "None"]
Some(v) == [tag |-> "Some", val |-> v]
Unit == [tag |-> "Unit"]

----------------------------------------------------------------------------
\* Cut

\* guard!(stop_t < start_t) returns None from Cut::new unless its condition
\* holds; otherwise the cut is built from the arguments.
Cut_new(behavior, start_t, stop_t) ==
  IF ~(stop_t < start_t)
    THEN None
    ELSE Some([behavior |-> behavior, start_t |-> start_t, stop_t |-> stop_t])

Cut_dur(self) ==
  self.stop_t - self.start_t

CutNew(b, s, e) ==
  /\ cutArgs' = Some([behavior |-> b, start_t |-> s, stop_t |-> e])
  /\ cutRes' = Cut_new(b, s, e)
  /\ UNCHANGED durRes
  /\ UNCHANGED genVars

\* dur() on the cut the last Cut::new returned.
CutDur ==
  /\ cutRes # None
  /\ durRes' = Some(Cut_dur(cutRes.val))
  /\ UNCHANGED <<cutArgs, cutRes>>
  /\ UNCHANGED genVars

----------------------------------------------------------------------------
\* SimpleF32TimeGenerator

\* Variant of new: current starts at zero instead of reset_value.
new_starts_at_zero(reset_value, delta) ==
  [current |-> 0, reset_value |-> reset_value, delta |-> delta]

new(reset_value, delta) ==
  [current |-> reset_value, reset_value |-> reset_value, delta |-> delta]

\* Variant of tick: advances first and returns the advanced time.
tick_returns_advanced(self) ==
  [t |-> self.current + self.delta,
   self |-> [self EXCEPT !.current = self.current + self.delta]]

\* Variant of tick: steps by one whatever delta is.
tick_steps_by_one(self) ==
  [t |-> self.current,
   self |-> [self EXCEPT !.current = self.current + 1]]

\* Each method yields the value it returns and the generator it leaves.
tick(self) ==
  [t |-> self.current,
   self |-> [self EXCEPT !.current = self.current + self.delta]]

\* Variant of untick: returns the regressed time.
untick_returns_regressed(self) ==
  [t |-> self.current - self.delta,
   self |-> [self EXCEPT !.current = self.current - self.delta]]

\* Variant of untick: steps forward like tick.
untick_adds(self) ==
  [t |-> self.current,
   self |-> [self EXCEPT !.current = self.current + self.delta]]

\* Variant of untick: never steps below reset_value.
untick_clamped(self) ==
  [t |-> self.current,
   self |-> [self EXCEPT !.current =
               IF self.current - self.delta < self.reset_value
                 THEN self.reset_value
                 ELSE self.current - self.delta]]

untick(self) ==
  [t |-> self.current,
   self |-> [self EXCEPT !.current = self.current - self.delta]]

\* Variant of set: the forced value also becomes the reset value.
set_moves_reset_value(self, value) ==
  [self EXCEPT !.current = value, !.reset_value = value]

\* Variant of set: moves current by the value instead of to it.
set_offsets(self, value) ==
  [self EXCEPT !.current = self.current + value]

set(self, value) ==
  [self EXCEPT !.current = value]

\* Variant of reset: goes back to zero instead of reset_value.
reset_to_zero(self) ==
  set(self, 0)

\* Variant of reset: the assignment goes the wrong way round.
reset_stores_current(self) ==
  [self EXCEPT !.reset_value = self.current]

\* Variant of reset: restores from the wrong field.
reset_to_delta(self) ==
  set(self, self.delta)

reset(self) ==
  set(self, self.reset_value)

\* Variant of change_delta: adds to the step instead of replacing it.
change_delta_accumulates(self, delta) ==
  [self EXCEPT !.delta = self.delta + delta]

\* Variant of change_delta: re-steps current as if the last step had used
\* the new delta.
change_delta_retroactive(self, delta) ==
  [self EXCEPT !.delta = delta,
               !.current = (self.current - self.delta) + delta]

change_delta(self, delta) ==
  [self EXCEPT !.delta = delta]

\* Bookkeeping shared by the calls: what was called, on what, in which history.
Called(name, a) ==
  /\ op' = name
  /\ prevOp' = op
  /\ prevOp2' = prevOp
  /\ arg' = a
  /\ pre' = gen
  /\ UNCHANGED newArgs
  /\ UNCHANGED cutVars

Counted(dt, du) ==
  IF plain /\ ticks + unticks < MaxOps
    THEN /\ ticks' = ticks + dt
         /\ unticks' = unticks + du
         /\ UNCHANGED plain
    ELSE /\ ticks' = 0
         /\ unticks' = 0
         /\ plain' = FALSE

NotCounted ==
  /\ ticks' = 0
  /\ unticks' = 0
  /\ plain' = FALSE

SimpleTick ==
  /\ tick(gen).self.current \in TimeRange
  /\ gen' = tick(gen).self
  /\ ret' = tick(gen).t
  /\ lastT' = Some(tick(gen).t)
  /\ Called("tick", Unit)
  /\ Counted(1, 0)
  /\ UNCHANGED lastDelta

SimpleUntick ==
  /\ untick(gen).self.current \in TimeRange
  /\ gen' = untick(gen).self
  /\ ret' = untick(gen).t
  /\ lastT' = Some(untick(gen).t)
  /\ Called("untick", Unit)
  /\ Counted(0, 1)
  /\ UNCHANGED lastDelta

SimpleReset ==
  /\ gen' = reset(gen)
  /\ ret' = Unit
  /\ Called("reset", Unit)
  /\ NotCounted
  /\ UNCHANGED <<lastDelta, lastT>>

SimpleSet(value) ==
  /\ gen' = set(gen, value)
  /\ ret' = Unit
  /\ Called("set", value)
  /\ NotCounted
  /\ UNCHANGED <<lastDelta, lastT>>

SimpleChangeDelta(delta) ==
  /\ gen' = change_delta(gen, delta)
  /\ ret' = Unit
  /\ Called("change_delta", delta)
  /\ NotCounted
  /\ lastDelta' = Some(delta)
  /\ UNCHANGED lastT

\* The calls on the generator of time/simple.rs alone.
Tick ==
  /\ SimpleTick
  /\ UNCHANGED <<libgen, libret>>

Untick ==
  /\ SimpleUntick
  /\ UNCHANGED <<libgen, libret>>

Reset ==
  /\ SimpleReset
  /\ UNCHANGED <<libgen, libret>>

Set(value) ==
  /\ SimpleSet(value)
  /\ UNCHANGED <<libgen, libret>>

ChangeDelta(delta) ==
  /\ SimpleChangeDelta(delta)
  /\ UNCHANGED <<libgen, libret>>

----------------------------------------------------------------------------
\* SimpleF32TimeGenerator as lib.rs defines it (its TimeGenerator has no set)

lib_new(reset_value, delta) ==
  [current |-> reset_value, reset_value |-> reset_value, delta |-> delta]

lib_tick(self) ==
  [t |-> self.current,
   self |-> [self EXCEPT !.current = self.current + self.delta]]

lib_untick(self) ==
  [t |-> self.current,
   self |-> [self EXCEPT !.current = self.current - self.delta]]

lib_reset(self) ==
  [self EXCEPT !.current = self.reset_value]

\* Variant of lib_change_delta: the new delta is dropped.
lib_change_delta_ignored(self, delta) ==
  self

lib_change_delta(self, delta) ==
  [self EXCEPT !.delta = delta]

\* The same call made on both generators.
BothTick ==
  /\ SimpleTick
  /\ libgen' = lib_tick(libgen).self
  /\ libret' = lib_tick(libgen).t

BothUntick ==
  /\ SimpleUntick
  /\ libgen' = lib_untick(libgen).self
  /\ libret' = lib_untick(libgen).t

BothReset ==
  /\ SimpleReset
  /\ libgen' = lib_reset(libgen)
  /\ libret' = Unit

BothChangeDelta(delta) ==
  /\ SimpleChangeDelta(delta)
  /\ libgen' = lib_change_delta(libgen, delta)
  /\ libret' = Unit

----------------------------------------------------------------------------
\* Specifications

InitGen(reset_value, delta) ==
  /\ gen = new(reset_value, delta)
  /\ newArgs = [reset_value |-> reset_value, delta |-> delta]
  /\ op = "new"
  /\ prevOp = "new"
  /\ prevOp2 = "new"
  /\ arg = Unit
  /\ ret = Unit
  /\ pre = new(reset_value, delta)
  /\ lastDelta = None
  /\ lastT = None
  /\ ticks = 0
  /\ unticks = 0
  /\ plain = TRUE
  /\ libgen = lib_new(reset_value, delta)
  /\ libret = Unit

InitCut ==
  /\ cutArgs = None
  /\ cutRes = None
  /\ durRes = None

Init ==
  /\ \E r \in ResetValues, d \in DeltaValues : InitGen(r, d)
  /\ InitCut

Next ==
  \/ Tick
  \/ Untick
  \/ Reset
  \/ \E value \in SetValues : Set(value)
  \/ \E delta \in DeltaValues : ChangeDelta(delta)

\* The generator under any sequence of calls.
Spec == Init /\ [][Next]_vars

NextBoth ==
  \/ BothTick
  \/ BothUntick
  \/ BothReset
  \/ \E delta \in DeltaValues : BothChangeDelta(delta)

\* Both definitions of the generator driven by the same sequence of calls.
SpecBoth == Init /\ [][NextBoth]_vars

InitCuts ==
  /\ InitGen(0, 1)
  /\ InitCut

NextCuts ==
  \/ \E b \in Behaviors, s \in CutTimes, e \in CutTimes : CutNew(b, s, e)
  \/ CutDur

\* Cut::new and dur called with any arguments, in any order.
SpecCut == InitCuts /\ [][NextCuts]_vars

----------------------------------------------------------------------------
\* Properties of Cut (checked under SpecCut)

CutCalled == cutArgs # None

\* C1: for all start_t <= stop_t (start_t = stop_t included), Cut::new
\* succeeds and returns a cut holding exactly those bounds.
C1_NewSucceedsOnOrderedBounds ==
  (CutCalled /\ cutArgs.val.start_t <= cutArgs.val.stop_t)
    => cutRes = Some(cutArgs.val)

\* C2: for all stop_t < start_t, Cut::new fails (returns None) and no cut
\* is produced.
C2_NewFailsOnInvertedBounds ==
  (CutCalled /\ cutArgs.val.stop_t < cutArgs.val.start_t)
    => cutRes = None

\* C3: every cut Cut::new returns has start_t <= stop_t, and dur() on it is
\* stop_t - start_t and never negative.
C3_ConstructedCutIsOrdered ==
  cutRes # None =>
    /\ cutRes.val.start_t <= cutRes.val.stop_t
    /\ durRes # None =>
         /\ durRes.val = cutRes.val.stop_t - cutRes.val.start_t
         /\ durRes.val >= 0

----------------------------------------------------------------------------
\* Properties of the time generator (checked under Spec)

\* C4: tick() returns the value current had before the call and leaves
\* current equal to that value plus delta; delta and reset_value are unchanged.
C4_TickReturnsThenAdvances ==
  op = "tick" =>
    /\ ret = pre.current
    /\ gen.current = pre.current + pre.delta
    /\ gen.delta = pre.delta
    /\ gen.reset_value = pre.reset_value

C4_Witness ==
  /\ op = "tick"
  /\ pre.delta # 0
  /\ ret # gen.current

\* C5: untick() returns the value current had before the call and leaves
\* current equal to that value minus delta; delta and reset_value are unchanged.
C5_UntickReturnsThenRegresses ==
  op = "untick" =>
    /\ ret = pre.current
    /\ gen.current = pre.current - pre.delta
    /\ gen.delta = pre.delta
    /\ gen.reset_value = pre.reset_value

C5_Witness ==
  /\ op = "untick"
  /\ pre.delta > 0
  /\ gen.current < ret

\* C6: tick() immediately followed by untick(), or untick() immediately
\* followed by tick(), leaves current equal to its value before the pair.
\* In a state whose last call is the first of the pair, pre is the generator
\* before the pair; the step is the second call.
C6_RoundTrip ==
  [][((op = "tick" /\ op' = "untick") \/ (op = "untick" /\ op' = "tick"))
       => gen'.current = pre.current]_vars

C6_Witness ==
  /\ prevOp = "tick"
  /\ op = "untick"
  /\ gen.delta # 0
  /\ gen.current = pre.current - gen.delta

\* C7: after any sequence of tick, untick, set and change_delta calls,
\* reset() leaves current equal to the reset_value passed to new and leaves
\* delta unchanged.
C7_ResetRestoresResetValue ==
  op = "reset" =>
    /\ gen.current = newArgs.reset_value
    /\ gen.delta = pre.delta

C7_Witness ==
  /\ op = "reset"
  /\ pre.current # newArgs.reset_value
  /\ gen.delta # newArgs.delta
  /\ gen.current # 0

CurrentChangers == {"tick", "untick", "reset", "set"}

\* C8 as stated: current is the only field any operation changes, and only
\* through tick, untick, reset or set; no operation changes delta or
\* reset_value.
C8_OnlyCurrentMutated ==
  [][/\ gen'.delta = gen.delta
     /\ gen'.reset_value = gen.reset_value
     /\ gen'.current # gen.current => op' \in CurrentChangers]_vars

\* C8 as amended: no operation changes reset_value; current changes only
\* through tick, untick, reset or set; delta changes only through
\* change_delta.
C8_FieldsChangeOnlyThroughTheirOperations ==
  [][/\ gen'.reset_value = gen.reset_value
     /\ gen'.current # gen.current => op' \in CurrentChangers
     /\ gen'.delta # gen.delta => op' = "change_delta"]_vars

C8_Witness ==
  /\ op = "change_delta"
  /\ gen.delta # pre.delta
  /\ gen.current # newArgs.reset_value
  /\ gen.reset_value = newArgs.reset_value

\* C9: on a generator built with new(reset_value, delta) and only ticked,
\* the k-th tick() returns reset_value + (k-1)*delta and leaves current equal
\* to reset_value + k*delta.
C9_KthTick ==
  (plain /\ unticks = 0 /\ ticks >= 1) =>
    /\ op = "tick"
    /\ ret = newArgs.reset_value + (ticks - 1) * newArgs.delta
    /\ gen.current = newArgs.reset_value + ticks * newArgs.delta

\* scenario A: reset_value = 0, delta = one step, four ticks
C9_Witness ==
  /\ plain
  /\ unticks = 0
  /\ ticks = 4
  /\ newArgs = [reset_value |-> 0, delta |-> 1]
  /\ ret = 3
  /\ gen.current = 4

\* C10: change_delta(d) replaces delta with d and leaves current and
\* reset_value unchanged; every later tick/untick steps current by d until
\* the next change_delta.
C10_ChangeDeltaTakesEffect ==
  /\ op = "change_delta" =>
       /\ gen.delta = arg
       /\ gen.current = pre.current
       /\ gen.reset_value = pre.reset_value
  /\ (lastDelta # None /\ op = "tick") =>
       gen.current = pre.current + lastDelta.val
  /\ (lastDelta # None /\ op = "untick") =>
       gen.current = pre.current - lastDelta.val

C10_Witness ==
  /\ lastDelta # None
  /\ lastDelta.val # newArgs.delta
  /\ op = "untick"
  /\ prevOp = "tick"
  /\ gen.current # pre.current


\* C11: the generator never rejects a step: untick() before any tick(), or
\* repeated past reset_value, is accepted whenever the model's time range
\* has room for it, returns a time and drives current below reset_value
\* without clamping it.
C11_UntickBelowResetValue ==
  /\ (gen.current <= gen.reset_value /\ gen.current - gen.delta \in TimeRange)
       => ENABLED Untick
  /\ (op = "untick" /\ pre.current <= pre.reset_value /\ pre.delta > 0) =>
       /\ ret \in TimeRange
       /\ gen.current = pre.current - pre.delta
       /\ gen.current < gen.reset_value

\* a second untick in a row, none of them preceded by a tick since new
C11_Witness ==
  /\ plain
  /\ ticks = 0
  /\ unticks >= 2
  /\ op = "untick"
  /\ gen.delta > 0
  /\ gen.current < gen.reset_value - gen.delta


\* C12: set(value) makes current equal to value whatever the prior state and
\* leaves delta and reset_value unchanged, so that the next tick() returns
\* value.
C12_SetForcesCurrent ==
  /\ [](op = "set" =>
          /\ gen.current = arg
          /\ gen.delta = pre.delta
          /\ gen.reset_value = pre.reset_value)
  /\ [][(op = "set" /\ op' = "tick") => ret' = arg]_vars

C12_Witness ==
  /\ prevOp = "set"
  /\ op = "tick"
  /\ ret # newArgs.reset_value
  /\ ret # 0
  /\ gen.current # ret


\* C14: change_delta is not retroactive: after tick() returned c under
\* delta d1 and change_delta(d2) is then called, the next tick() returns
\* c + d1 and leaves current equal to c + d1 + d2.
\* In the state between change_delta(d2) and the next tick, lastT holds c,
\* pre.delta is d1 and arg is d2.
C14_ChangeDeltaNotRetroactive ==
  [][(prevOp = "tick" /\ op = "change_delta" /\ op' = "tick") =>
       /\ ret' = lastT.val + pre.delta
       /\ gen'.current = lastT.val + pre.delta + arg]_vars

C14_Witness ==
  /\ prevOp2 = "tick"
  /\ prevOp = "change_delta"
  /\ op = "tick"
  /\ lastDelta.val # newArgs.delta
  /\ lastDelta.val # 0
  /\ newArgs.delta # 0
  /\ ret # gen.current


\* C15: with delta fixed and no set/reset in between, after any interleaving
\* of m tick() calls and n untick() calls on a fresh generator, current
\* equals reset_value + (m - n)*delta, whatever the order of the calls.
C15_TicksAndUnticksCommute ==
  plain => gen.current = newArgs.reset_value + (ticks - unticks) * newArgs.delta

\* an interleaving that ends untick, tick, untick
C15_Witness ==
  /\ plain
  /\ ticks >= 2
  /\ unticks >= 2
  /\ ticks # unticks
  /\ prevOp2 = "untick"
  /\ prevOp = "tick"
  /\ op = "untick"
  /\ gen.delta > 1


\* C16: reset_value is invariant: in every state reachable by tick, untick,
\* reset, set and change_delta it equals the value passed to new, and
\* immediately after new current equals reset_value.
C16_ResetValueInvariant ==
  /\ gen.reset_value = newArgs.reset_value
  /\ op = "new" => gen.current = gen.reset_value

C16_Witness ==
  /\ op = "reset"
  /\ prevOp = "set"
  /\ lastDelta # None
  /\ lastT # None
  /\ pre.current # gen.reset_value
  /\ gen.reset_value # 0

\* C17: reset() has exactly the effect of set(reset_value) and is
\* idempotent: a second reset() in a row changes nothing, and a value forced
\* by an earlier set(v) does not survive a reset.
C17_ResetIsSetToResetValue ==
  /\ [](op = "reset" =>
          /\ gen = set(pre, pre.reset_value)
          /\ gen = [pre EXCEPT !.current = newArgs.reset_value])
  /\ [][(op = "set" /\ op' = "reset") =>
          gen' = [pre EXCEPT !.current = newArgs.reset_value]]_vars
  /\ [][(op = "reset" /\ op' = "reset") => gen' = gen]_vars

\* reset, reset after a set(v) with v other than reset_value
C17_Witness ==
  /\ prevOp2 = "set"
  /\ prevOp = "reset"
  /\ op = "reset"
  /\ gen.current # gen.delta
  /\ gen.current # 0


\* C18: the SimpleF32TimeGenerator of lib.rs and that of time/simple.rs,
\* built with the same (reset_value, delta) and driven by the same sequence
\* of tick, untick, reset and change_delta calls, return the same times at
\* every step and hold equal current, delta and reset_value after every step.
C18_DefinitionsAgree ==
  /\ libret = ret
  /\ libgen.current = gen.current
  /\ libgen.delta = gen.delta
  /\ libgen.reset_value = gen.reset_value

C18_Witness ==
  /\ op = "untick"
  /\ prevOp = "change_delta"
  /\ prevOp2 = "reset"
  /\ lastT # None
  /\ libgen.delta # newArgs.delta
  /\ libgen.delta # 0
  /\ libret = libgen.current + libgen.delta
  /\ libgen.current < libgen.reset_value

====
